---- MODULE Spec2Model ----
(***************************************************************************)
(* Model of the inference-serving pipeline of ml_training/prediction_api.py *)
(* (Flask service: bundle load at import, /health, /api/predict,           *)
(* /api/labels, /api/features).                                            *)
(*                                                                         *)
(* Numbers.  Feature values, means and scales are integers; a standardized *)
(* value is an exact fraction [n, d] (d = 0 encodes the IEEE results of a  *)
(* division by zero: n > 0 +inf, n < 0 -inf, n = 0 nan).  Confidences are  *)
(* integers (tenths), NaN is the one non-finite confidence.  Floating      *)
(* point rounding is not modelled.                                         *)
(*                                                                         *)
(* Python's None is the empty sequence <<>>, a set value v is <<v>>.       *)
(***************************************************************************)
EXTENDS Integers, Sequences, FiniteSets, TLC

VARIABLES
    dir,            \* contents of MODEL_DIR on disk (read-only to the service)
    pc,             \* position of the process: import, load steps, serving, failed
    loadCalls,      \* number of calls of load_model_and_metadata so far
    model,          \* global model         (None or <<classifier>>)
    labels,         \* global labels        (None or <<list of labels>>)
    feature_names,  \* global feature_names (None or <<list of names>>)
    scaler,         \* global scaler        (None or <<[mean, scale]>>)
    req,            \* the last request a client sent and what came back
    setBy,          \* for each global, the call of load_model_and_metadata that
                    \* assigned it last (0: never assigned)
    threads         \* the predict requests handled at the same time by the
                    \* threads of the server, each with its own locals

vars == <<dir, pc, loadCalls, model, labels, feature_names, scaler, req, setBy, threads>>

globals == <<model, labels, feature_names, scaler>>

----------------------------------------------------------------------------
(* Bounds of the model *)

MaxKeys == 2        \* most keys in the "features" object of a request
MaxLabels == 6      \* most labels in labels.json
BaseLen == 3        \* length of the score pattern that defines a classifier

(* Program constants *)

TopK == 5           \* all_predictions[:5]
NaN == -1           \* the non-finite confidence (finite confidences are >= 0)
NonNumeric == -2    \* a feature value that float32 conversion rejects (a JSON
                    \* string such as "abc"); numeric feature values are >= 0

None == <<>>
Some(v) == <<v>>
IsNone(o) == o = <<>>
Val(o) == o[1]

----------------------------------------------------------------------------
(* Universe of inputs *)

SchemaNames == {"a", "b"}
UnknownKeys == {"x", "y"}
Keys == SchemaNames \cup UnknownKeys
FeatureVals == {2, 4}
ConfVals == {1, 2, 7, NaN}
AllLabels == <<"A", "B", "C", "D", "E", "F", "G", "H", "I">>

\* sequences over S of length n without repetition
RECURSIVE Injections(_, _)
Injections(S, n) ==
    IF n = 0 THEN {<<>>}
    ELSE UNION {{Append(s, x) : x \in S \ {s[i] : i \in 1..Len(s)}} : s \in Injections(S, n - 1)}

\* a Python dict: key/value pairs in insertion order, keys unique
Dicts == UNION {{[i \in 1..n |-> <<ks[i], vs[i]>>] : ks \in Injections(Keys, n), vs \in [1..n -> FeatureVals]} : n \in 0..MaxKeys}

\* dicts whose value for "a", sent first, is not a number
BadValueDicts ==
    {[d EXCEPT ![1] = <<"a", NonNumeric>>] : d \in {e \in Dicts : Len(e) >= 1 /\ e[1][1] = "a"}}

\* the JSON object of a predict request: without or with a "features" member
Bodies == {None} \cup {Some(d) : d \in Dicts \cup BadValueDicts}

Schemas == Injections(SchemaNames, 1) \cup Injections(SchemaNames, 2)

Labels(n) == SubSeq(AllLabels, 1, n)

Ones(n) == [i \in 1..n |-> 1]
Zeros(n) == [i \in 1..n |-> 0]

\* a classifier: input width, output width, score pattern (see ModelPredict)
Classifier(i, o, b) == [inDim |-> i, outDim |-> o, base |-> b]

Scalers ==
    { [mean |-> <<0, 0>>, scale |-> <<1, 2>>],
      [mean |-> <<2, 0>>, scale |-> <<2, 4>>],
      [mean |-> <<1, 1>>, scale |-> <<1, 3>>],
      [mean |-> <<1>>, scale |-> <<2>>],
      [mean |-> <<1>>, scale |-> <<1, 2>>],
      [mean |-> <<0, 0>>, scale |-> <<2>>],
      [mean |-> <<0, 0>>, scale |-> <<0, 1>>],
      [mean |-> <<2, 4>>, scale |-> <<0, 0>>],
      [mean |-> <<0, 0, 0>>, scale |-> <<1, 1, 1>>],
      [mean |-> <<0, 0>>, scale |-> <<1, 1, 1>>] }

\* directories that vary the feature schema
SchemaDirs ==
    { [model |-> Some(Classifier(Len(s), 3, <<1, 7, 2>>)), labels |-> Some(Labels(3)),
       feature_names |-> Some(s), scaler |-> Some([mean |-> Zeros(Len(s)), scale |-> Ones(Len(s))])]
      : s \in Schemas }

\* directories that vary the normalization parameters
ScalerDirs ==
    { [model |-> Some(Classifier(2, 3, <<1, 7, 2>>)), labels |-> Some(Labels(3)),
       feature_names |-> Some(<<"a", "b">>), scaler |-> Some(sc)]
      : sc \in Scalers }

\* directories that vary the label list and the classifier
RankDir(n, o, b) ==
    [model |-> Some(Classifier(1, o, b)), labels |-> Some(Labels(n)),
     feature_names |-> Some(<<"a">>), scaler |-> Some([mean |-> <<0>>, scale |-> <<1>>])]

RankDirs ==
    UNION { { RankDir(n, o, b) : o \in {k \in {n - 1, n, n + 1} : k >= 1},
                                b \in [1..BaseLen -> ConfVals] }
            : n \in 0..MaxLabels }

\* directories with an artifact file missing or unreadable
BrokenDirs ==
    LET full == [model |-> Some(Classifier(1, 3, <<1, 7, 2>>)), labels |-> Some(Labels(3)),
                 feature_names |-> Some(<<"a">>), scaler |-> Some([mean |-> <<0>>, scale |-> <<1>>])]
    IN { [full EXCEPT ![f] = None] : f \in {"model", "labels", "feature_names", "scaler"} }
       \cup { [full EXCEPT !.model = Some(Classifier(2, 3, <<1, 7, 2>>))] }

ArtifactDirs == SchemaDirs \cup ScalerDirs \cup RankDirs \cup BrokenDirs

\* the directories and request bodies of the runs with concurrent requests
ConcDirs ==
    {d \in ScalerDirs : Val(d.scaler).scale \in {<<2, 4>>, <<0, 1>>, <<1, 1, 1>>}}
    \cup {d \in BrokenDirs : \A f \in DOMAIN d : ~IsNone(d[f])}
    \cup {RankDir(2, 2, <<1, NaN, 7>>), RankDir(2, 1, <<7, 1, 2>>)}

ConcBodies ==
    {None} \cup
    {Some(d) : d \in { <<<<"a", 2>>, <<"b", 4>>>>, <<<<"b", 4>>, <<"a", 2>>>>,
                       <<<<"a", 4>>, <<"b", 4>>>>, <<<<"a", 2>>>>, <<<<"a", 4>>>>,
                       <<<<"a", 2>>, <<"x", 4>>>>, <<<<"a", NonNumeric>>, <<"b", 2>>>> }}

----------------------------------------------------------------------------
(* The request record *)

NoReq ==
    [kind |-> "none", json |-> TRUE, body |-> None, status |-> 0, error |-> "", name |-> "",
     vec |-> None, normCalled |-> FALSE, xs |-> None, inferCalls |-> 0,
     preds |-> None, out |-> None]

Request(kind, body) == [NoReq EXCEPT !.kind = kind, !.body = body]

\* the server threads, and what a thread holds: where it is in predict, the
\* request record r and the local feature_vector
Threads == {"t1", "t2"}
IdleSlot == [stage |-> "idle", r |-> NoReq, fv |-> <<>>]

----------------------------------------------------------------------------
(* The feature-map operations of predict: a dict is a sequence of pairs *)

\* len(features_dict)
DictLen(d) == Len(d)

\* feature_name in features_dict
Contains(d, k) == \E i \in 1..Len(d) : d[i][1] = k

\* features_dict[feature_name]
Lookup(d, k) == d[CHOOSE i \in 1..Len(d) : d[i][1] = k][2]

\* mutant of ExtractFeatures: reports the missing name found last
RECURSIVE ExtractFeaturesLastMissing(_, _, _)
ExtractFeaturesLastMissing(names, d, acc) ==
    IF names = <<>> THEN [ok |-> TRUE, vec |-> acc, missing |-> ""]
    ELSE LET rest == ExtractFeaturesLastMissing(Tail(names), d, acc)
         IN IF ~rest.ok THEN rest
            ELSE IF ~Contains(d, Head(names)) THEN [ok |-> FALSE, vec |-> acc, missing |-> Head(names)]
            ELSE [rest EXCEPT !.vec = <<Lookup(d, Head(names))>> \o @]

\* mutant of ExtractFeatures: takes the values in the order of the request
ExtractFeaturesInputOrder(names, d, acc) ==
    IF \E i \in 1..Len(names) : ~Contains(d, names[i])
    THEN [ok |-> FALSE, vec |-> acc,
          missing |-> names[CHOOSE i \in 1..Len(names) :
                               ~Contains(d, names[i]) /\ \A j \in 1..(i - 1) : Contains(d, names[j])]]
    ELSE [ok |-> TRUE, vec |-> acc \o [i \in 1..Len(d) |-> d[i][2]], missing |-> ""]

\* the loop "for feature_name in feature_names": names is what is left of
\* feature_names, acc is feature_vector so far
RECURSIVE ExtractFeatures(_, _, _)
ExtractFeatures(names, d, acc) ==
    IF names = <<>> THEN [ok |-> TRUE, vec |-> acc, missing |-> ""]
    ELSE IF ~Contains(d, Head(names)) THEN [ok |-> FALSE, vec |-> acc, missing |-> Head(names)]
    ELSE ExtractFeatures(Tail(names), d, Append(acc, Lookup(d, Head(names))))

----------------------------------------------------------------------------
(* Standardization: X_scaled = (X - mean) / scale with numpy broadcasting *)

Abs(x) == IF x < 0 THEN -x ELSE x

RECURSIVE GCD(_, _)
GCD(a, b) == IF b = 0 THEN a ELSE GCD(b, a % b)

\* the float n / d: a reduced fraction, or +inf, -inf, nan when d = 0
Quotient(n, d) ==
    IF d = 0 THEN [n |-> IF n > 0 THEN 1 ELSE IF n < 0 THEN -1 ELSE 0, d |-> 0]
    ELSE LET g == GCD(Abs(n), Abs(d))
             s == IF d < 0 THEN -1 ELSE 1
         IN [n |-> (s * n) \div g, d |-> (s * d) \div g]

\* numpy broadcasting of two trailing dimensions
Broadcastable(a, b) == a = b \/ a = 1 \/ b = 1
BroadcastLen(a, b) == IF a = 1 THEN b ELSE a
At(s, i) == IF Len(s) = 1 THEN s[1] ELSE s[i]

\* X = np.array([feature_vector]); (X - mean) / scale.  ok = FALSE: ValueError
Standardize(vec, sc) ==
    LET w == BroadcastLen(Len(vec), Len(sc.mean))
    IN IF ~Broadcastable(Len(vec), Len(sc.mean)) \/ ~Broadcastable(w, Len(sc.scale))
       THEN [ok |-> FALSE, xs |-> <<>>]
       ELSE [ok |-> TRUE,
             xs |-> [i \in 1..BroadcastLen(w, Len(sc.scale)) |->
                        Quotient(At(vec, i) - At(sc.mean, i), At(sc.scale, i))]]

----------------------------------------------------------------------------
(* The classifier: an opaque deterministic function of its input.  It      *)
(* rejects an input of the wrong width; its scores are the pattern `base`  *)
(* rotated by a number computed from the input.                            *)

RECURSIVE InputKey(_)
InputKey(xs) ==
    IF xs = <<>> THEN 0
    ELSE Len(xs) * (Abs(xs[Len(xs)].n) + xs[Len(xs)].d) + InputKey(SubSeq(xs, 1, Len(xs) - 1))

\* model.predict(X_scaled, verbose=0)[0].  ok = FALSE: the call raises
ModelPredict(m, xs) ==
    IF Len(xs) # m.inDim THEN [ok |-> FALSE, preds |-> <<>>]
    ELSE [ok |-> TRUE,
          preds |-> [i \in 1..m.outDim |-> m.base[((i - 1 + InputKey(xs)) % Len(m.base)) + 1]]]

----------------------------------------------------------------------------
(* Ranking *)

\* float comparison x < y: false when either side is NaN
FloatLt(x, y) == x # NaN /\ y # NaN /\ x < y

\* np.argmax: the first NaN if there is one, else the first maximum (1-based)
ArgMax(p) ==
    IF \E i \in 1..Len(p) : p[i] = NaN
    THEN CHOOSE i \in 1..Len(p) : p[i] = NaN /\ \A j \in 1..(i - 1) : p[j] # NaN
    ELSE CHOOSE i \in 1..Len(p) : (\A j \in 1..Len(p) : p[j] <= p[i]) /\ (\A j \in 1..(i - 1) : p[j] < p[i])

Reverse(s) == [i \in 1..Len(s) |-> s[Len(s) + 1 - i]]

\* the sort key: lambda x: x['confidence']
KeyLt(x, y) == FloatLt(x.confidence, y.confidence)

\* list.sort of CPython for short lists: count_run, then binary insertion
RECURSIVE CountRun(_, _, _)
CountRun(s, n, desc) ==
    IF n >= Len(s) THEN n
    ELSE IF desc = KeyLt(s[n + 1], s[n]) THEN CountRun(s, n + 1, desc)
    ELSE n

RECURSIVE BinarySearch(_, _, _, _)
BinarySearch(s, pivot, l, r) ==
    IF l >= r THEN l
    ELSE LET p == l + ((r - l) \div 2)
         IN IF KeyLt(pivot, s[p + 1]) THEN BinarySearch(s, pivot, l, p)
            ELSE BinarySearch(s, pivot, p + 1, r)

InsertAt(s, pos, x) == SubSeq(s, 1, pos) \o <<x>> \o SubSeq(s, pos + 1, Len(s))

RECURSIVE BinarySort(_, _)
BinarySort(sorted, rest) ==
    IF rest = <<>> THEN sorted
    ELSE BinarySort(InsertAt(sorted, BinarySearch(sorted, Head(rest), 0, Len(sorted)), Head(rest)),
                    Tail(rest))

ListSort(s) ==
    IF Len(s) < 2 THEN s
    ELSE LET desc == KeyLt(s[2], s[1])
             n == CountRun(s, 2, desc)
             run == SubSeq(s, 1, n)
         IN BinarySort(IF desc THEN Reverse(run) ELSE run, SubSeq(s, n + 1, Len(s)))

\* mutant of SortByConfidenceDesc: sorts ascending and reverses the result,
\* which turns the order of equal confidences around
SortAscendingThenReverse(s) == Reverse(ListSort(s))

\* all_predictions.sort(key=..., reverse=True): reverse, stable sort, reverse
SortByConfidenceDesc(s) == Reverse(ListSort(Reverse(s)))

\* mutant of Top: the ranking is not cut
TopAll(s) == s

\* all_predictions[:5]
Top(s) == SubSeq(s, 1, IF Len(s) < TopK THEN Len(s) ELSE TopK)

----------------------------------------------------------------------------
(* predict, step by step; r is the request record built so far *)

Fail(r, status, error) == [r EXCEPT !.status = status, !.error = error]

\* (variant: the except clause answers as for a client error)
CaughtAsBadRequest(r) == Fail(r, 400, "Exception")

\* the 'except Exception' clause: any exception becomes a 500 response
Caught(r) == Fail(r, 500, "Exception")

\* top prediction, ranking and response, from the classifier's output p
RankStep(r, p) ==
    IF IsNone(labels) THEN Caught(r)
    ELSE LET ls == Val(labels)
             idx == ArgMax(p)
             all_predictions == [i \in 1..Len(ls) |-> [sign |-> ls[i], confidence |-> p[i]]]
         IN IF idx > Len(ls) THEN Caught(r)                 \* labels[predicted_idx]
            ELSE IF Len(ls) > Len(p) THEN Caught(r)         \* predictions[i]
            ELSE [r EXCEPT !.status = 200,
                           !.out = Some([predicted_sign |-> ls[idx],
                                         confidence |-> p[idx],
                                         all_predictions |-> Top(SortByConfidenceDesc(all_predictions))])]

\* (variant: a classifier call that raised is tried once more)
InferStepRetry(r, xs) ==
    IF IsNone(model) THEN Caught(r)
    ELSE LET res == ModelPredict(Val(model), xs)
             r1 == [r EXCEPT !.xs = Some(xs), !.inferCalls = @ + 1]
         IN IF ~res.ok THEN Caught([r1 EXCEPT !.inferCalls = @ + 1])
            ELSE RankStep([r1 EXCEPT !.preds = Some(res.preds)], res.preds)

\* the call of the classifier on X_scaled
InferStep(r, xs) ==
    IF IsNone(model) THEN Caught(r)
    ELSE LET res == ModelPredict(Val(model), xs)
             r1 == [r EXCEPT !.xs = Some(xs), !.inferCalls = @ + 1]
         IN IF ~res.ok THEN Caught(r1)
            ELSE RankStep([r1 EXCEPT !.preds = Some(res.preds)], res.preds)

\* np.array([feature_vector], dtype=np.float32) raises ValueError on a
\* value that is no number
Convertible(vec) == \A i \in 1..Len(vec) : vec[i] # NonNumeric

\* conversion and standardization of the validated feature_vector
NormalizeStep(r, vec) ==
    IF ~Convertible(vec) \/ IsNone(scaler) THEN Caught(r)
    ELSE LET res == Standardize(vec, Val(scaler))
             r1 == [r EXCEPT !.vec = Some(vec), !.normCalled = TRUE]
         IN IF ~res.ok THEN Caught(r1) ELSE InferStep(r1, res.xs)

\* mutant of ValidateStep: the count check is left out
ValidateStepNoCountCheck(r, d) ==
    IF IsNone(feature_names) THEN Caught(r)
    ELSE LET ex == ExtractFeatures(Val(feature_names), d, <<>>)
         IN IF ~ex.ok THEN [Fail(r, 400, "MissingFeature") EXCEPT !.name = ex.missing]
            ELSE NormalizeStep(r, ex.vec)

\* mutant of ValidateStep: the names are looked up before the count is checked
ValidateStepCountLast(r, d) ==
    IF IsNone(feature_names) THEN Caught(r)
    ELSE LET ex == ExtractFeatures(Val(feature_names), d, <<>>)
         IN IF ~ex.ok THEN [Fail(r, 400, "MissingFeature") EXCEPT !.name = ex.missing]
            ELSE IF DictLen(d) # Len(Val(feature_names)) THEN Fail(r, 400, "FeatureCountMismatch")
            ELSE NormalizeStep(r, ex.vec)

\* (variant: the count check only rejects a map with fewer keys than F)
ValidateStepCountAtLeast(r, d) ==
    IF IsNone(feature_names) THEN Caught(r)
    ELSE LET names == Val(feature_names)
         IN IF DictLen(d) < Len(names) THEN Fail(r, 400, "FeatureCountMismatch")
            ELSE LET ex == ExtractFeatures(names, d, <<>>)
                 IN IF ~ex.ok THEN [Fail(r, 400, "MissingFeature") EXCEPT !.name = ex.missing]
                    ELSE NormalizeStep(r, ex.vec)

\* the count check and the extraction in schema order
ValidateStep(r, d) ==
    IF IsNone(feature_names) THEN Caught(r)
    ELSE LET names == Val(feature_names)
         IN IF DictLen(d) # Len(names) THEN Fail(r, 400, "FeatureCountMismatch")
            ELSE LET ex == ExtractFeatures(names, d, <<>>)
                 IN IF ~ex.ok THEN [Fail(r, 400, "MissingFeature") EXCEPT !.name = ex.missing]
                    ELSE NormalizeStep(r, ex.vec)

\* the whole handler of POST /api/predict
PredictHandler(body) ==
    LET r == Request("predict", body)
    IN IF IsNone(body) THEN Fail(r, 400, "MissingFeatures")
       ELSE ValidateStep(r, Val(body))

\* GET /health
HealthHandler ==
    [Request("health", None) EXCEPT
        !.status = 200,
        !.out = Some([status |-> "healthy",
                      model_loaded |-> ~IsNone(model),
                      num_classes |-> IF IsNone(labels) \/ Val(labels) = <<>> THEN 0
                                      ELSE Len(Val(labels))])]

\* GET /api/labels (len(None) raises: Flask answers 500)
LabelsHandler ==
    LET r == Request("labels", None)
    IN IF IsNone(labels) THEN Caught(r)
       ELSE [r EXCEPT !.status = 200,
                      !.out = Some([labels |-> Val(labels), num_classes |-> Len(Val(labels))])]

\* GET /api/features
FeaturesHandler ==
    LET r == Request("features", None)
    IN IF IsNone(feature_names) THEN Caught(r)
       ELSE [r EXCEPT !.status = 200,
                      !.out = Some([features |-> Val(feature_names),
                                    num_features |-> Len(Val(feature_names))])]

\* POST /api/predict without a JSON object: request.json raises (no or
\* invalid JSON) or is None, and 'features' not in None raises TypeError
PredictNoJson == Caught([Request("predict", None) EXCEPT !.json = FALSE])

\* predict in a server thread, one stage per step; s is the thread's slot.
\* The stages are those of PredictHandler: lines 111-129, 132-133, 136,
\* 139-154.
Finish(s, r) == [s EXCEPT !.stage = "done", !.r = r]

ThreadArrive(body) == [IdleSlot EXCEPT !.stage = "validate", !.r = Request("predict", body)]

ThreadValidate(s) ==
    IF IsNone(s.r.body) THEN Finish(s, Fail(s.r, 400, "MissingFeatures"))
    ELSE LET d == Val(s.r.body)
             names == Val(feature_names)
         IN IF DictLen(d) # Len(names) THEN Finish(s, Fail(s.r, 400, "FeatureCountMismatch"))
            ELSE LET ex == ExtractFeatures(names, d, <<>>)
                 IN IF ~ex.ok
                    THEN Finish(s, [Fail(s.r, 400, "MissingFeature") EXCEPT !.name = ex.missing])
                    ELSE [s EXCEPT !.stage = "normalize", !.fv = ex.vec]

\* (variant: feature_vector is one list shared by the threads, and thread
\* t1 was the last to fill it)
ThreadNormalizeShared(s) ==
    LET other == threads["t1"]
        fv == IF other.stage \in {"normalize", "infer", "rank"} THEN other.fv ELSE s.fv
    IN IF ~Convertible(fv) THEN Finish(s, Caught(s.r))
       ELSE LET res == Standardize(fv, Val(scaler))
                r1 == [s.r EXCEPT !.vec = Some(fv), !.normCalled = TRUE]
            IN IF ~res.ok THEN Finish(s, Caught(r1))
               ELSE [s EXCEPT !.stage = "infer", !.r = [r1 EXCEPT !.xs = Some(res.xs)]]

ThreadNormalize(s) ==
    IF ~Convertible(s.fv) THEN Finish(s, Caught(s.r))
    ELSE LET res == Standardize(s.fv, Val(scaler))
             r1 == [s.r EXCEPT !.vec = Some(s.fv), !.normCalled = TRUE]
         IN IF ~res.ok THEN Finish(s, Caught(r1))
            ELSE [s EXCEPT !.stage = "infer", !.r = [r1 EXCEPT !.xs = Some(res.xs)]]

ThreadInfer(s) ==
    LET res == ModelPredict(Val(model), Val(s.r.xs))
        r1 == [s.r EXCEPT !.inferCalls = @ + 1]
    IN IF ~res.ok THEN Finish(s, Caught(r1))
       ELSE [s EXCEPT !.stage = "rank", !.r = [r1 EXCEPT !.preds = Some(res.preds)]]

ThreadRank(s) == Finish(s, RankStep(s.r, Val(s.r.preds)))

\* a request sent while no server listens: the client gets no response
Refused(kind) == Fail(Request(kind, None), 0, "ConnectionError")

----------------------------------------------------------------------------
(* The process *)

Init ==
    /\ dir \in ArtifactDirs
    /\ pc = "import"
    /\ loadCalls = 0
    /\ model = None
    /\ labels = None
    /\ feature_names = None
    /\ scaler = None
    /\ req = NoReq
    /\ setBy = [model |-> 0, labels |-> 0, feature_names |-> 0, scaler |-> 0]
    /\ threads = [t \in Threads |-> IdleSlot]

\* the module-level call of load_model_and_metadata
ImportLoad ==
    /\ pc = "import"
    /\ pc' = "load_model"
    /\ loadCalls' = loadCalls + 1
    /\ UNCHANGED <<dir, globals, req, setBy, threads>>

\* one artifact of load_model_and_metadata: read it and assign the global,
\* or raise (the process dies with the globals as they are)
LoadModel ==
    /\ pc = "load_model"
    /\ IF IsNone(dir.model)
       THEN pc' = "failed" /\ UNCHANGED <<model, setBy>>
       ELSE /\ pc' = "load_labels"
            /\ model' = dir.model
            /\ setBy' = [setBy EXCEPT !.model = loadCalls]
    /\ UNCHANGED <<dir, loadCalls, labels, feature_names, scaler, req, threads>>

LoadLabels ==
    /\ pc = "load_labels"
    /\ IF IsNone(dir.labels)
       THEN pc' = "failed" /\ UNCHANGED <<labels, setBy>>
       ELSE /\ pc' = "load_features"
            /\ labels' = dir.labels
            /\ setBy' = [setBy EXCEPT !.labels = loadCalls]
    /\ UNCHANGED <<dir, loadCalls, model, feature_names, scaler, req, threads>>

LoadFeatures ==
    /\ pc = "load_features"
    /\ IF IsNone(dir.feature_names)
       THEN pc' = "failed" /\ UNCHANGED <<feature_names, setBy>>
       ELSE /\ pc' = "load_scaler"
            /\ feature_names' = dir.feature_names
            /\ setBy' = [setBy EXCEPT !.feature_names = loadCalls]
    /\ UNCHANGED <<dir, loadCalls, model, labels, scaler, req, threads>>

LoadScaler ==
    /\ pc = "load_scaler"
    /\ IF IsNone(dir.scaler)
       THEN pc' = "failed" /\ UNCHANGED <<scaler, setBy>>
       ELSE /\ pc' = "loaded"
            /\ scaler' = dir.scaler
            /\ setBy' = [setBy EXCEPT !.scaler = loadCalls]
    /\ UNCHANGED <<dir, loadCalls, model, labels, feature_names, req, threads>>

\* run as a script: the __main__ block calls load_model_and_metadata again
MainLoad ==
    /\ pc = "loaded"
    /\ loadCalls = 1
    /\ pc' = "load_model"
    /\ loadCalls' = loadCalls + 1
    /\ UNCHANGED <<dir, globals, req, setBy, threads>>

\* (variant: the server is started while a load is still assigning globals)
StartServingEarly ==
    /\ pc \in {"load_labels", "load_features", "load_scaler", "loaded"}
    /\ pc' = "serving"
    /\ UNCHANGED <<dir, loadCalls, globals, req, setBy, threads>>

\* the server starts to accept requests: the WSGI server after the import,
\* app.run after the __main__ block's load
StartServing ==
    /\ pc = "loaded"
    /\ pc' = "serving"
    /\ UNCHANGED <<dir, loadCalls, globals, req, setBy, threads>>

\* (variant: the server listens as soon as the import has begun)
ServingDuringLoad == pc \notin {"import", "failed", "stopped"}

Serving == pc = "serving"

\* a request arrives when the previous one has been answered and its
\* request-scoped data discarded; without a listening server it is refused
Health ==
    /\ req = NoReq
    /\ req' = IF Serving THEN HealthHandler ELSE Refused("health")
    /\ UNCHANGED <<dir, pc, loadCalls, globals, setBy, threads>>

Predict ==
    /\ req = NoReq
    /\ IF Serving
       THEN \/ \E body \in Bodies : req' = PredictHandler(body)
            \/ req' = PredictNoJson
       ELSE req' = Refused("predict")
    /\ UNCHANGED <<dir, pc, loadCalls, globals, setBy, threads>>

\* (variant: the handler reverses the global label list in place before
\* it answers)
GetLabelsReversing ==
    /\ req = NoReq
    /\ req' = (IF Serving THEN LabelsHandler ELSE Refused("labels"))
    /\ labels' = (IF Serving THEN Some(Reverse(Val(labels))) ELSE labels)
    /\ UNCHANGED <<dir, pc, loadCalls, model, feature_names, scaler, setBy, threads>>

GetLabels ==
    /\ req = NoReq
    /\ req' = IF Serving THEN LabelsHandler ELSE Refused("labels")
    /\ UNCHANGED <<dir, pc, loadCalls, globals, setBy, threads>>

GetFeatures ==
    /\ req = NoReq
    /\ req' = IF Serving THEN FeaturesHandler ELSE Refused("features")
    /\ UNCHANGED <<dir, pc, loadCalls, globals, setBy, threads>>

\* the response has been sent (or the connection error raised): the
\* request and everything computed for it are gone
EndRequest ==
    /\ req # NoReq
    /\ req' = NoReq
    /\ UNCHANGED <<dir, pc, loadCalls, globals, setBy, threads>>

\* the process is stopped: the server no longer listens
Shutdown ==
    /\ pc = "serving"
    /\ req = NoReq
    /\ pc' = "stopped"
    /\ UNCHANGED <<dir, loadCalls, globals, req, setBy, threads>>

Next ==
    \/ ImportLoad
    \/ LoadModel
    \/ LoadLabels
    \/ LoadFeatures
    \/ LoadScaler
    \/ MainLoad
    \/ StartServing
    \/ Health
    \/ Predict
    \/ GetLabels
    \/ GetFeatures
    \/ EndRequest
    \/ Shutdown

Spec == Init /\ [][Next]_vars

----------------------------------------------------------------------------
(* Concurrent predict requests: the threads of the server run predict at   *)
(* the same time, each on its own request, interleaved stage by stage.     *)

Begin(t) ==
    /\ Serving
    /\ threads[t].stage = "idle"
    /\ \E body \in ConcBodies : threads' = [threads EXCEPT ![t] = ThreadArrive(body)]
    /\ UNCHANGED <<dir, pc, loadCalls, globals, req, setBy>>

DoValidate(t) ==
    /\ threads[t].stage = "validate"
    /\ threads' = [threads EXCEPT ![t] = ThreadValidate(threads[t])]
    /\ UNCHANGED <<dir, pc, loadCalls, globals, req, setBy>>

DoNormalize(t) ==
    /\ threads[t].stage = "normalize"
    /\ threads' = [threads EXCEPT ![t] = ThreadNormalize(threads[t])]
    /\ UNCHANGED <<dir, pc, loadCalls, globals, req, setBy>>

DoInfer(t) ==
    /\ threads[t].stage = "infer"
    /\ threads' = [threads EXCEPT ![t] = ThreadInfer(threads[t])]
    /\ UNCHANGED <<dir, pc, loadCalls, globals, req, setBy>>

DoRank(t) ==
    /\ threads[t].stage = "rank"
    /\ threads' = [threads EXCEPT ![t] = ThreadRank(threads[t])]
    /\ UNCHANGED <<dir, pc, loadCalls, globals, req, setBy>>

\* the response is sent and the thread's locals are discarded
Respond(t) ==
    /\ threads[t].stage = "done"
    /\ threads' = [threads EXCEPT ![t] = IdleSlot]
    /\ UNCHANGED <<dir, pc, loadCalls, globals, req, setBy>>

InitConc == Init /\ dir \in ConcDirs

NextConc ==
    \/ ImportLoad
    \/ LoadModel
    \/ LoadLabels
    \/ LoadFeatures
    \/ LoadScaler
    \/ MainLoad
    \/ StartServing
    \/ \E t \in Threads :
          \/ Begin(t)
          \/ DoValidate(t)
          \/ DoNormalize(t)
          \/ DoInfer(t)
          \/ DoRank(t)
          \/ Respond(t)

SpecConc == InitConc /\ [][NextConc]_vars

----------------------------------------------------------------------------
(* Properties *)

\* the request just answered is a predict request that carried a feature map
PredictOf(r) == r.kind = "predict" /\ ~IsNone(r.body)
FeatureMap == Val(req.body)
F == Len(Val(feature_names))
Schema == Val(feature_names)
KeySet(d) == {d[i][1] : i \in 1..Len(d)}
NameSet == {Schema[i] : i \in 1..F}

\* C1: a predict request whose feature map has a number of keys different
\* from F is answered 400 FeatureCountMismatch, and neither the normalizer
\* nor the classifier has been invoked for it.
C1_CountMismatchRejected ==
    (PredictOf(req) /\ Len(FeatureMap) # F)
        => /\ req.status = 400
           /\ req.error = "FeatureCountMismatch"
           /\ ~req.normCalled
           /\ req.inferCalls = 0

\* C1 witness: a map with more keys than F that holds every schema name was
\* rejected for its count
C1_Witness ==
    /\ PredictOf(req)
    /\ Len(FeatureMap) > F
    /\ NameSet \subseteq KeySet(FeatureMap)
    /\ req.status = 400
    /\ req.error = "FeatureCountMismatch"

\* C2: a predict request whose feature map has exactly F keys but lacks a
\* schema name is answered 400 MissingFeature, naming the first absent name
\* in schema order, and the classifier has not been invoked.
C2_FirstMissingInSchemaOrder ==
    (PredictOf(req) /\ Len(FeatureMap) = F /\ ~(NameSet \subseteq KeySet(FeatureMap)))
        => /\ req.status = 400
           /\ req.error = "MissingFeature"
           /\ \E i \in 1..F :
                 /\ req.name = Schema[i]
                 /\ Schema[i] \notin KeySet(FeatureMap)
                 /\ \A j \in 1..(i - 1) : Schema[j] \in KeySet(FeatureMap)
           /\ req.inferCalls = 0

\* C2 witness: two schema names are absent, and the one reported is the
\* first of the schema although the request's own order would suggest no name
C2_Witness ==
    /\ PredictOf(req)
    /\ Len(FeatureMap) = F
    /\ F = 2
    /\ KeySet(FeatureMap) \cap NameSet = {}
    /\ req.error = "MissingFeature"
    /\ req.name = Schema[1]

\* C3 (as claimed): a feature map that is complete but for one omitted
\* schema name is answered with a MissingFeature error naming that name.
C3_OmittedFeatureNamed ==
    \A k \in SchemaNames :
        (PredictOf(req) /\ k \in NameSet /\ KeySet(FeatureMap) = NameSet \ {k})
            => /\ req.status = 400
               /\ req.error = "MissingFeature"
               /\ req.name = k

\* C3 (amended): a feature map that holds every schema name but k is
\* answered 400; the error is MissingFeature naming k when the map still has
\* F keys, and FeatureCountMismatch when it has any other number of keys,
\* as after a plain omission.
C3_OmittedFeatureRejected ==
    \A k \in SchemaNames :
        (PredictOf(req) /\ k \in NameSet /\ k \notin KeySet(FeatureMap)
                        /\ (NameSet \ {k}) \subseteq KeySet(FeatureMap))
            => /\ req.status = 400
               /\ IF Len(FeatureMap) = F
                  THEN req.error = "MissingFeature" /\ req.name = k
                  ELSE req.error = "FeatureCountMismatch" /\ req.name = ""

\* C3 witness: the second of two schema names was left out of a complete
\* map, and the request was rejected for its count
C3_Witness ==
    /\ PredictOf(req)
    /\ F = 2
    /\ KeySet(FeatureMap) = {Schema[1]}
    /\ req.status = 400
    /\ req.error = "FeatureCountMismatch"

\* the same key/value pairs in every insertion order
Reorderings(d) == {[i \in 1..Len(d) |-> d[p[i]]] : p \in Permutations(1..Len(d))}

\* C4: the vector handed to the normalizer has length F and holds at i the
\* value the map gives to the i-th schema name; the same pairs in any other
\* insertion order give the same vector and the same response.
C4_VectorInSchemaOrder ==
    (PredictOf(req) /\ ~IsNone(req.vec))
        => /\ Len(Val(req.vec)) = F
           /\ \A i \in 1..F :
                 \E j \in 1..Len(FeatureMap) : FeatureMap[j] = <<Schema[i], Val(req.vec)[i]>>
           /\ \A d2 \in Reorderings(FeatureMap) :
                 /\ PredictHandler(Some(d2)).vec = req.vec
                 /\ PredictHandler(Some(d2)).status = req.status
                 /\ PredictHandler(Some(d2)).out = req.out

\* C4 witness: a valid map sent in the reverse of the schema order, with two
\* different values, was predicted
C4_Witness ==
    /\ PredictOf(req)
    /\ req.status = 200
    /\ F = 2
    /\ FeatureMap[1][1] = Schema[2]
    /\ FeatureMap[1][2] # FeatureMap[2][2]
    /\ Val(req.vec) = <<FeatureMap[2][2], FeatureMap[1][2]>>

\* C5 (as claimed): the value passed to the classifier at i is
\* (vector[i] - mean[i]) / scale[i], with the mean and the scale the bundle
\* stores at the same index i.
C5_PerFeatureStandardization ==
    (PredictOf(req) /\ req.inferCalls > 0)
        => /\ Len(Val(req.xs)) = Len(Val(req.vec))
           /\ \A i \in 1..Len(Val(req.vec)) :
                 /\ i \in DOMAIN Val(scaler).mean
                 /\ i \in DOMAIN Val(scaler).scale
                 /\ (Val(req.xs)[i].d = 0) <=> (Val(scaler).scale[i] = 0)
                 /\ Val(req.xs)[i].n * Val(scaler).scale[i]
                       = (Val(req.vec)[i] - Val(scaler).mean[i]) * Val(req.xs)[i].d

\* the classifier's output, the loaded labels and the response of the request
Preds == Val(req.preds)
LabelList == Val(labels)
NumLabels == Len(Val(labels))
Ranked == Val(req.out).all_predictions
Predicted(r) == PredictOf(r) /\ r.status = 200
Finite(p) == \A i \in 1..Len(p) : p[i] # NaN

\* label i is ranked before label j: higher confidence, or equal confidence
\* and lower index
Before(p, i, j) == p[i] > p[j] \/ (p[i] = p[j] /\ i < j)
RankOf(p, i) == 1 + Cardinality({j \in 1..Len(p) : Before(p, j, i)})

\* C6: for a probability vector of length C (finite confidences), entry k of
\* all_predictions pairs a label i with probability i, and it is the label
\* of rank k when labels are ordered by descending confidence and, for
\* equal confidence, ascending label index.
C6_RankingOrder ==
    (Predicted(req) /\ Len(Preds) = NumLabels /\ Finite(Preds))
        => /\ Len(Ranked) >= 1
           /\ \A k \in 1..Len(Ranked) :
                 \E i \in 1..NumLabels :
                    /\ RankOf(Preds, i) = k
                    /\ Ranked[k] = [sign |-> LabelList[i], confidence |-> Preds[i]]

\* C6 witness: the maximum occurs at two indices i < j and label i is listed
\* first, label j second
C6_Witness ==
    /\ Predicted(req)
    /\ Len(Preds) = NumLabels
    /\ Finite(Preds)
    /\ \E i, j \in 1..NumLabels :
          /\ i < j
          /\ Preds[i] = Preds[j]
          /\ \A m \in 1..NumLabels : Preds[m] <= Preds[i]
          /\ Ranked[1].sign = LabelList[i]
          /\ Ranked[2].sign = LabelList[j]

\* C7: all_predictions of a successful predict has min(C, 5) entries, all of
\* different labels, each a label with its own confidence, and (for finite
\* confidences) no label left out is ranked before a label listed.
C7_TopFive ==
    Predicted(req)
        => /\ Len(Ranked) = (IF NumLabels < 5 THEN NumLabels ELSE 5)
           /\ \A k \in 1..Len(Ranked) :
                 /\ \E i \in 1..NumLabels :
                       Ranked[k] = [sign |-> LabelList[i], confidence |-> Preds[i]]
                 /\ \A m \in 1..Len(Ranked) : Ranked[m].sign = Ranked[k].sign => m = k
           /\ Finite(Preds)
                => \A i \in 1..NumLabels :
                      (\A k \in 1..Len(Ranked) : Ranked[k].sign # LabelList[i])
                         => \A j \in 1..NumLabels : Before(Preds, i, j)
                               => (\A k \in 1..Len(Ranked) : Ranked[k].sign # LabelList[j])

\* C7 witness: six labels, five entries
C7_Witness ==
    /\ Predicted(req)
    /\ NumLabels = 6
    /\ Len(Ranked) = 5
    /\ Finite(Preds)

\* C8 (as claimed): predicted_sign and confidence of a successful predict
\* are the sign and the confidence of the first entry of all_predictions.
C8_TopEntryIsPrediction ==
    Predicted(req)
        => /\ Val(req.out).predicted_sign = Ranked[1].sign
           /\ Val(req.out).confidence = Ranked[1].confidence

\* float comparisons with a NaN operand are false
FloatGe(x, y) == x # NaN /\ y # NaN /\ x >= y

\* C9 (as claimed): a feature map with exactly the F expected names is
\* answered with a prediction, every confidence in it is non-negative, and
\* the first entry's confidence is at least every confidence listed.
C9_ValidMapPredicted ==
    (PredictOf(req) /\ KeySet(FeatureMap) = NameSet)
        => /\ req.status = 200
           /\ FloatGe(Val(req.out).confidence, 0)
           /\ \A k \in 1..Len(Ranked) :
                 /\ FloatGe(Ranked[k].confidence, 0)
                 /\ FloatGe(Ranked[1].confidence, Ranked[k].confidence)

\* C10 (as claimed): a health request always succeeds; before the bundle
\* load has completed it reports model_loaded false, and after a successful
\* load model_loaded true with num_classes the number of loaded labels.
C10_HealthReflectsLoad ==
    req.kind = "health"
        => /\ req.status = 200
           /\ Val(req.out).model_loaded = Serving
           /\ Serving => Val(req.out).num_classes = Len(Val(labels))

\* ------------------------------------------------------------------
\* Readiness, load checks and error handling
\* ------------------------------------------------------------------

BundleSet == ~IsNone(model) /\ ~IsNone(labels) /\ ~IsNone(feature_names) /\ ~IsNone(scaler)
Handled(r) == r.kind # "none" /\ r.status # 0
PipelineUntouched(r) ==
    /\ IsNone(r.vec) /\ ~r.normCalled /\ IsNone(r.xs)
    /\ r.inferCalls = 0 /\ IsNone(r.preds) /\ IsNone(r.out)

\* C11: no request is accepted while the service is not ready: a request
\* answered before the load has completed, after a failed load or after
\* shutdown is refused without validation, normalization, inference or
\* ranking, and a handler only ever runs with all four globals set.
C11_NoRequestUnlessReady ==
    /\ (req.kind # "none" /\ ~Serving) => (req.status = 0 /\ PipelineUntouched(req))
    /\ Handled(req) => (Serving /\ BundleSet)

C11_Witness ==
    /\ pc \in {"load_labels", "failed", "stopped"}
    /\ req.kind = "predict"
    /\ req.status = 0

HasZero(sc) == \E i \in 1..Len(sc.scale) : sc.scale[i] = 0

\* C12 (as claimed): a bundle whose scale sequence contains a zero is
\* rejected at load, so the service never serves with it, and no predict
\* request is standardized by dividing by a zero scale.
C12_ZeroScaleRejected ==
    /\ Serving => ~HasZero(Val(scaler))
    /\ req.normCalled => ~HasZero(Val(scaler))

Mean == Val(scaler).mean
Scale == Val(scaler).scale

\* C13 (as claimed): a bundle whose dimensions disagree is rejected at load:
\* whenever the service serves, the schema, the means and the scales have the
\* same length and the label list has the length of the classifier output.
C13_DimensionsAgree ==
    Serving => /\ Len(Mean) = F
               /\ Len(Scale) = F
               /\ NumLabels = Val(model).outDim

\* the classifier was invoked on this request and gave no finite scores:
\* some score is non-finite, or the call raised
InferenceFailed(r) == r.inferCalls > 0 /\ (IsNone(r.preds) \/ ~Finite(Val(r.preds)))

\* C14 (as claimed): whenever the classifier raises or returns a score vector
\* with a non-finite entry, predict answers 500, and no 200 response carries
\* a non-finite confidence.
C14_NonFiniteIs500 ==
    PredictOf(req) =>
        /\ InferenceFailed(req) => req.status = 500
        /\ req.status = 200 =>
               /\ Val(req.out).confidence # NaN
               /\ \A i \in 1..Len(Ranked) : Ranked[i].confidence # NaN

\* the steps of predict at which the request r raised, told from the
\* request and the bundle alone
RaisedAtBody(r) == ~r.json
RaisedAtConversion(r) ==
    /\ PredictOf(r)
    /\ Len(Val(r.body)) = F
    /\ NameSet \subseteq KeySet(Val(r.body))
    /\ \E i \in 1..F : Lookup(Val(r.body), Schema[i]) = NonNumeric
RaisedAtNormalization(r) == ~IsNone(r.vec) /\ ~Standardize(Val(r.vec), Val(scaler)).ok
RaisedAtClassifier(r) == ~IsNone(r.xs) /\ ~ModelPredict(Val(model), Val(r.xs)).ok
RaisedAtRanking(r) ==
    /\ ~IsNone(r.preds)
    /\ (ArgMax(Val(r.preds)) > NumLabels \/ NumLabels > Len(Val(r.preds)))
Raised(r) ==
    \/ RaisedAtBody(r) \/ RaisedAtConversion(r) \/ RaisedAtNormalization(r)
    \/ RaisedAtClassifier(r) \/ RaisedAtRanking(r)

\* C15: a predict request that raises at any step (no JSON object in the
\* body, a feature value that is no number, normalization, classifier,
\* ranking) is answered 500 and leaves the service serving with its bundle
\* unchanged; the only step after a 500 returns to the very state the
\* service was in before the request, so later requests are served as if it
\* had not happened.
C15_FailureCaught ==
    [][ /\ (req = NoReq /\ Serving /\ req'.kind = "predict" /\ Raised(req'))
            => (req'.status = 500 /\ IsNone(req'.out) /\ UNCHANGED <<pc, globals>>)
        /\ (req.kind = "predict" /\ req.status = 500)
            => (req' = NoReq /\ UNCHANGED <<dir, pc, loadCalls, globals>>) ]_vars

C15_Witness ==
    /\ Serving
    /\ RaisedAtConversion(req)
    /\ req.status = 500

\* all four globals were assigned by one and the same call of
\* load_model_and_metadata
FromOneLoad ==
    /\ BundleSet
    /\ setBy.model > 0
    /\ setBy.labels = setBy.model
    /\ setBy.feature_names = setBy.model
    /\ setBy.scaler = setBy.model

\* C16: no partly loaded bundle is ever published: whenever a handler can
\* run or has run, the four globals are all set, by the same load; a load
\* that failed after assigning some of them leaves no state in which a
\* handler runs.
C16_NoPartialBundle ==
    /\ (Serving \/ Handled(req)) => FromOneLoad
    /\ pc = "failed" => ~Handled(req)

C16_Witness ==
    /\ pc = "failed"
    /\ ~IsNone(model)
    /\ IsNone(scaler)
    /\ req.kind = "labels"
    /\ req.status = 0

\* C17 (as claimed): load_model_and_metadata runs exactly once in every
\* execution, whether the service is started by a WSGI import or as the
\* main script: never more than one call, and one call once serving.
C17_LoadedExactlyOnce ==
    /\ loadCalls <= 1
    /\ Serving => loadCalls = 1

\* C18: once the service serves, no step changes model, labels,
\* feature_names or scaler, whatever request is handled and however it ends.
C18_BundleFrozen ==
    [][Serving => UNCHANGED globals]_vars

C18_Witness ==
    /\ Serving
    /\ Predicted(req)
    /\ globals = <<dir.model, dir.labels, dir.feature_names, dir.scaler>>

\* C20: a handled predict request has exactly one response and at most one
\* classifier invocation: exactly one before a 200, none before a 400, and
\* a classifier call that raised is followed by the 500 without a second
\* call.
C20_AtMostOneInvocation ==
    (req.kind = "predict" /\ Handled(req)) =>
        /\ req.status \in {200, 400, 500}
        /\ req.inferCalls <= 1
        /\ req.status = 200 => (req.inferCalls = 1 /\ ~IsNone(req.out) /\ req.error = "")
        /\ req.status = 400 => (req.inferCalls = 0 /\ IsNone(req.out))
        /\ req.status = 500 => IsNone(req.out)
        /\ RaisedAtClassifier(req) => (req.inferCalls = 1 /\ req.status = 500)

C20_Witness ==
    /\ req.kind = "predict"
    /\ RaisedAtClassifier(req)
    /\ req.inferCalls = 1
    /\ req.status = 500

\* C19: whatever the interleaving of the predict requests handled at the
\* same time, the response a thread has ready is the one the handler gives
\* to the same body when it runs alone.
C19_ResponseAsAlone ==
    \A t \in Threads :
        threads[t].stage = "done" => threads[t].r = PredictHandler(threads[t].r.body)

C19_Witness ==
    /\ threads["t2"].stage = "done"
    /\ threads["t2"].r.status = 200
    /\ threads["t1"].stage = "infer"
    /\ threads["t1"].r.vec # threads["t2"].r.vec

\* the count check and the name loop let the request through: it was not
\* answered 400
Accepted(r) == r.status # 400

\* C21: a feature map (its keys are unique) passes the count check and the
\* name loop if and only if its key set is exactly the set of schema names;
\* no map with a key outside the schema reaches the normalizer, and a map
\* with F keys one of which is outside the schema is answered 400
\* MissingFeature, naming a schema name the map lacks.
C21_AcceptedIffKeySetIsSchema ==
    (PredictOf(req) /\ Handled(req)) =>
        /\ Accepted(req) <=> (KeySet(FeatureMap) = NameSet)
        /\ req.normCalled => KeySet(FeatureMap) \subseteq NameSet
        /\ (Len(FeatureMap) = F /\ ~(KeySet(FeatureMap) \subseteq NameSet))
              => /\ req.status = 400
                 /\ req.error = "MissingFeature"
                 /\ req.name \in NameSet \ KeySet(FeatureMap)

C21_Witness ==
    /\ PredictOf(req)
    /\ Handled(req)
    /\ F = 2
    /\ KeySet(FeatureMap) = {Schema[1], "x"}
    /\ req.status = 400
    /\ req.error = "MissingFeature"
    /\ req.name = Schema[2]

====
